---- MODULE Spec2Model ----
(***************************************************************************)
(* A model of the typeshed-to-Ariadne converter: converter/converter.py    *)
(* (the Converter class and the type-name mapper) and the batch driver     *)
(* convert_main of converter/run.py.                                       *)
(*                                                                         *)
(* The instruction tree is an ElementTree: elements are objects that the   *)
(* code holds by reference and only ever appends to.  It is modelled as a  *)
(* heap, the sequence `nodes` of elements in creation order; an element    *)
(* reference is its index, and ET.SubElement appends one element and adds  *)
(* its index to the parent's children.                                     *)
(*                                                                         *)
(* The recursion of convert_global over class bodies is modelled by an     *)
(* explicit stack of frames, so that every statement of a module, at any   *)
(* nesting depth, is translated by one step.  Python is modelled with      *)
(* assertions enabled and with the ast of Python >= 3.9 (a subscript's     *)
(* slice is the expression itself).                                        *)
(***************************************************************************)
EXTENDS Integers, Sequences, FiniteSets, TLC

VARIABLES
    pc,                  \* position of the driver / converter
    exc,                 \* the uncaught exception that ended the batch ("" if none)
    nFiles,              \* len(filepaths)
    fileIdx,             \* index of the file the driver's loop is at (0 before the loop)
    output_dir,          \* what os.path finds at the output directory
    written,             \* the write() calls that completed, in order
    package_name,        \* Converter.package_name
    tree,                \* Converter.tree (the module's body)
    nodes,               \* the elements created by this Converter, in creation order
    tmp_var_name_index,  \* Converter.tmp_var_name_index
    allocated,           \* the names _get_tmp_var_name returned in this run, in order
    stack                \* the active calls of convert / convert_global (class bodies)

vars == <<pc, exc, nFiles, fileIdx, output_dir, written, package_name, tree,
          nodes, tmp_var_name_index, allocated, stack>>

(***************************************************************************)
(* Bounds of the model.                                                    *)
(***************************************************************************)
MaxBody == 2
MaxElts == 2
MaxFiles == 3

(***************************************************************************)
(* Python values and ast nodes.                                            *)
(***************************************************************************)
PyStr(s) == [type |-> "str", repr |-> s]
PyNone == [type |-> "NoneType", repr |-> "None"]
PyEllipsis == [type |-> "ellipsis", repr |-> "Ellipsis"]

Name(id) == [kind |-> "Name", id |-> id]
Constant(value) == [kind |-> "Constant", value |-> value]
Subscript(value, slice) == [kind |-> "Subscript", value |-> value, slice |-> slice]
BinOp(left, right) == [kind |-> "BinOp", left |-> left, right |-> right]
Tuple(elts) == [kind |-> "Tuple", elts |-> elts]
List(elts) == [kind |-> "List", elts |-> elts]
Attribute == [kind |-> "Attribute"]
\* Python's None where the ast has no node (FunctionDef.returns of an
\* unannotated function).
NoNode == [kind |-> "NoneType"]

arguments(args, kwonlyargs) == [args |-> args, kwonlyargs |-> kwonlyargs]
FunctionDef(name, decorator_list, args, returns) ==
    [kind |-> "FunctionDef", name |-> name, decorator_list |-> decorator_list,
     args |-> args, returns |-> returns]
ClassDef(name, body) == [kind |-> "ClassDef", name |-> name, body |-> body]
AnnAssign(target, annotation) ==
    [kind |-> "AnnAssign", target |-> target, annotation |-> annotation]
Assign == [kind |-> "Assign"]
Import == [kind |-> "Import"]
ImportFrom == [kind |-> "ImportFrom"]
If(body) == [kind |-> "If", body |-> body]
Expr == [kind |-> "Expr"]
Pass == [kind |-> "Pass"]

(***************************************************************************)
(* PythonType2AriadneType.                                                 *)
(***************************************************************************)
string2AriadneString ==
    [bool |-> "Z", int |-> "int", float |-> "D", str |-> "Lstring",
     list |-> "Llist", set |-> "Lset", tuple |-> "Ltuple", dict |-> "Ldict",
     None |-> "LNone", Any |-> "Lobject"]

\* Only a str can be a key of the table; any other value is formatted by
\* str(), which `repr` holds.
convertString(python_type) ==
    IF python_type.type = "str" /\ python_type.repr \in DOMAIN string2AriadneString
    THEN string2AriadneString[python_type.repr]
    ELSE IF python_type.type = "NoneType"
    THEN string2AriadneString["None"]
    ELSE "L" \o python_type.repr

(***************************************************************************)
(* The Converter's mutable state as threaded through its methods: the      *)
(* elements, the counter, the names handed out, and whether an assertion   *)
(* has failed (the exception then unwinds every caller).                   *)
(***************************************************************************)
Self == [nodes |-> nodes, idx |-> tmp_var_name_index, allocated |-> allocated,
         err |-> FALSE]

Raise(st) == [st EXCEPT !.err = TRUE]

Element(tag, attrib) == [tag |-> tag, attrib |-> attrib, children |-> <<>>]

\* ET.SubElement(parent, tag, attrib); the new element is Len(st.nodes) + 1.
SubElement(st, parent, tag, attrib) ==
    [st EXCEPT !.nodes =
        Append([@ EXCEPT ![parent].children = Append(@, Len(st.nodes) + 1)],
               Element(tag, attrib))]

LastElement(st) == Len(st.nodes)

\* The two elements __init__ creates, by creation order.
summary_spec_tag == 1
class_loader_tag == 2

\* A faulty variant: the counter is not incremented.
_get_tmp_var_name_stuck(st) ==
    [st |-> [st EXCEPT !.allocated = Append(@, "_typeshed" \o ToString(st.idx))],
     name |-> "_typeshed" \o ToString(st.idx)]

_get_tmp_var_name(st) ==
    [st |-> [st EXCEPT !.idx = @ + 1,
                       !.allocated = Append(@, "_typeshed" \o ToString(st.idx))],
     name |-> "_typeshed" \o ToString(st.idx)]

_get_num_args(args) == Len(args.args) + Len(args.kwonlyargs)

RECURSIVE JoinArgs(_, _)
JoinArgs(names, i) ==
    IF i > Len(names) THEN "" ELSE (names[i] \o " ") \o JoinArgs(names, i + 1)

\* result[:-1]
DropLast(s) == IF Len(s) = 0 THEN s ELSE SubSeq(s, 1, Len(s) - 1)

_get_arg_names(args) ==
    DropLast(JoinArgs(args.args, 1) \o JoinArgs(args.kwonlyargs, 1))

RECURSIVE _get_expr_type(_)
_get_expr_type(t) ==
    IF t.kind = "Name" THEN [ok |-> TRUE, v |-> convertString(PyStr(t.id))]
    ELSE IF t.kind = "Subscript" THEN _get_expr_type(t.value)
    ELSE IF t.kind = "BinOp" THEN
        LET l == _get_expr_type(t.left)
            r == _get_expr_type(t.right)
        IN  IF l.ok /\ r.ok THEN [ok |-> TRUE, v |-> (l.v \o " ") \o r.v]
            ELSE [ok |-> FALSE, v |-> ""]
    ELSE IF t.kind = "Constant" THEN [ok |-> TRUE, v |-> convertString(t.value)]
    ELSE [ok |-> FALSE, v |-> ""]

NewAttrib(def, class) == [def |-> def, class |-> class]
PutfieldAttrib(field, ref, value) ==
    [class |-> "LRoot", field |-> field, fieldType |-> "LRoot", ref |-> ref,
     value |-> value]
ReturnAttrib(value) == [value |-> value]

(***************************************************************************)
(* _convert_expr.  The result is the state after the call and the name of  *)
(* the object constructed; `put_var_name` is <<>> for None and <<name>>    *)
(* otherwise.  After a failed assertion nothing more is appended.          *)
(***************************************************************************)
RECURSIVE _convert_expr(_, _, _, _, _)
RECURSIVE ConvertElts(_, _, _, _, _)
RECURSIVE ConvertElts_from1(_, _, _, _, _)

\* A faulty variant: the field index starts at 1.
ConvertElts_from1(st, elts, parent_tag, new_var_name, i) ==
    IF st.err \/ i > Len(elts) THEN st
    ELSE ConvertElts_from1(
            _convert_expr(st, elts[i], parent_tag, <<new_var_name>>, i).st,
            elts, parent_tag, new_var_name, i + 1)

\* for e in elts: self._convert_expr(e, parent_tag, new_var_name, elt_index),
\* from the i-th element on (elt_index = i - 1).
ConvertElts(st, elts, parent_tag, new_var_name, i) ==
    IF st.err \/ i > Len(elts) THEN st
    ELSE ConvertElts(
            _convert_expr(st, elts[i], parent_tag, <<new_var_name>>, i - 1).st,
            elts, parent_tag, new_var_name, i + 1)

_convert_expr(st, t, parent_tag, put_var_name, index) ==
    LET a == _get_tmp_var_name(st)
        new_var_name == a.name
        built ==
            IF t.kind = "Tuple" THEN
                ConvertElts(
                    SubElement(a.st, parent_tag, "new",
                               NewAttrib(new_var_name, convertString(PyStr("tuple")))),
                    t.elts, parent_tag, new_var_name, 1)
            ELSE IF t.kind = "List" THEN
                ConvertElts(
                    SubElement(a.st, parent_tag, "new",
                               NewAttrib(new_var_name, convertString(PyStr("list")))),
                    t.elts, parent_tag, new_var_name, 1)
            ELSE IF t.kind = "Subscript" THEN
                LET inner_subscript_type == _get_expr_type(t.value)
                    s1 == SubElement(a.st, parent_tag, "new",
                                     NewAttrib(new_var_name, inner_subscript_type.v))
                IN  IF ~inner_subscript_type.ok THEN Raise(a.st)
                    ELSE IF t.slice.kind \in {"Tuple", "List"}
                    THEN ConvertElts(s1, t.slice.elts, parent_tag, new_var_name, 1)
                    ELSE _convert_expr(s1, t.slice, parent_tag, <<new_var_name>>, 0).st
            ELSE
                LET var_type == _get_expr_type(t)
                IN  IF ~var_type.ok THEN Raise(a.st)
                    ELSE SubElement(a.st, parent_tag, "new",
                                    NewAttrib(new_var_name, var_type.v))
    IN  [st |-> IF built.err \/ put_var_name = <<>> THEN built
                ELSE SubElement(built, parent_tag, "putfield",
                         PutfieldAttrib(ToString(index), put_var_name[1], new_var_name)),
         name |-> new_var_name]

\* A faulty variant: the return tag is appended before the expression's tags.
convert_return_early(st, t, method_tag) ==
    _convert_expr(
        SubElement(st, method_tag, "return",
                   ReturnAttrib("_typeshed" \o ToString(st.idx))),
        t, method_tag, <<>>, 0).st

convert_return(st, t, method_tag) ==
    LET r == _convert_expr(st, t, method_tag, <<>>, 0)
    IN  IF r.st.err THEN r.st
        ELSE SubElement(r.st, method_tag, "return", ReturnAttrib(r.name))

(***************************************************************************)
(* convert_global.  A frame is one active call level: the module body      *)
(* under convert (class_name = ""), or the body of a class under the       *)
(* ClassDef branch.  `pos` is the statement the for loop is at.            *)
(***************************************************************************)
Frame(body, def_method_tag, return_obj_name, function_def_package, class_def_package, class_name) ==
    [body |-> body, pos |-> 1, def_method_tag |-> def_method_tag,
     return_obj_name |-> return_obj_name,
     function_def_package_tag |-> function_def_package.tag,
     function_def_package_name |-> function_def_package.name,
     class_def_package_tag |-> class_def_package.tag,
     class_def_package_name |-> class_def_package.name,
     class_name |-> class_name]

\* The decorator loop of the FunctionDef branch: "overload" when the loop
\* returns at an overload decorator, "assert" when it meets a decorator that
\* is not a Name first, "none" when it runs to its end.
RECURSIVE ScanDecorators(_, _)
ScanDecorators(decorator_list, i) ==
    IF i > Len(decorator_list) THEN "none"
    ELSE IF decorator_list[i].kind # "Name" THEN "assert"
    ELSE IF decorator_list[i].id = "overload" THEN "overload"
    ELSE ScanDecorators(decorator_list, i + 1)

\* The FunctionDef branch after the decorator loop.
EmitFunctionDef(st, t, f) ==
    LET func_name == t.name
        tmp_func_name == func_name \o "_typeshed_"
        s1 == SubElement(st, f.def_method_tag, "new",
                  NewAttrib(tmp_func_name,
                            (("L" \o f.function_def_package_name) \o "/") \o func_name))
        s2 == SubElement(s1, f.def_method_tag, "putfield",
                  PutfieldAttrib(func_name, f.return_obj_name, tmp_func_name))
        s3 == SubElement(s2, f.function_def_package_tag, "class",
                  [name |-> func_name, allocatable |-> "true"])
        s4 == SubElement(s3, LastElement(s3), "method",
                  [name |-> "do", descriptor |-> "()LRoot;",
                   num_args |-> ToString(_get_num_args(t.args)),
                   param_names |-> _get_arg_names(t.args), static |-> "true"])
    IN  convert_return(s4, t.returns, LastElement(s4))

\* A faulty variant: the overload test is made after the function is emitted.
ConvertFunctionDef_late(st, t, f) ==
    LET d == ScanDecorators(t.decorator_list, 1)
    IN  IF d = "assert" THEN Raise(st) ELSE EmitFunctionDef(st, t, f)

ConvertFunctionDef(st, t, f) ==
    LET d == ScanDecorators(t.decorator_list, 1)
    IN  IF d = "assert" THEN Raise(st)
        ELSE IF d = "overload" THEN st
        ELSE EmitFunctionDef(st, t, f)

ConvertAnnAssign(st, t, f) ==
    IF t.target.kind # "Name" THEN Raise(st)
    ELSE
        LET var_name == t.target.id
            tmp_var_name == var_name \o "_typeshed_"
            tmp_var_type == _get_expr_type(t.annotation)
            s1 == SubElement(st, f.def_method_tag, "new",
                             NewAttrib(tmp_var_name, tmp_var_type.v))
        IN  IF ~tmp_var_type.ok THEN Raise(st)
            ELSE SubElement(s1, f.def_method_tag, "putfield",
                            PutfieldAttrib(var_name, f.return_obj_name, tmp_var_name))

\* A faulty variant: the members are attached to the enclosing object
\* (return_obj_name is passed on instead of result_obj_name).
ClassDefEnter_outer(st, t, f) ==
    LET class_name == t.name
        tmp_class_name == class_name \o "_typeshed_"
        class_path == (("L" \o f.class_def_package_name) \o "/") \o class_name
        s1 == SubElement(st, f.def_method_tag, "new",
                         NewAttrib(tmp_class_name, class_path))
        s2 == SubElement(s1, f.def_method_tag, "putfield",
                         PutfieldAttrib(class_name, f.return_obj_name, tmp_class_name))
        method_define_package_name == (package_name \o "/") \o class_name
        s3 == SubElement(s2, class_loader_tag, "package",
                         [name |-> method_define_package_name])
        s4 == SubElement(s3, f.class_def_package_tag, "class",
                         [name |-> class_name, allocatable |-> "true"])
        s5 == SubElement(s4, LastElement(s4), "method",
                         [name |-> "do", descriptor |-> "()LRoot;"])
        s6 == SubElement(s5, LastElement(s5), "new",
                         NewAttrib(tmp_class_name, class_path))
    IN  [st |-> s6,
         frame |-> Frame(t.body, LastElement(s5), f.return_obj_name,
                         [tag |-> LastElement(s3), name |-> method_define_package_name],
                         [tag |-> f.class_def_package_tag,
                          name |-> f.class_def_package_name],
                         class_name)]

\* The ClassDef branch up to its loop over the class body: the state, and
\* the frame of that loop.
ClassDefEnter(st, t, f) ==
    LET class_name == t.name
        tmp_class_name == class_name \o "_typeshed_"
        class_path == (("L" \o f.class_def_package_name) \o "/") \o class_name
        s1 == SubElement(st, f.def_method_tag, "new",
                         NewAttrib(tmp_class_name, class_path))
        s2 == SubElement(s1, f.def_method_tag, "putfield",
                         PutfieldAttrib(class_name, f.return_obj_name, tmp_class_name))
        method_define_package_name == (package_name \o "/") \o class_name
        s3 == SubElement(s2, class_loader_tag, "package",
                         [name |-> method_define_package_name])
        method_define_package_tag == LastElement(s3)
        s4 == SubElement(s3, f.class_def_package_tag, "class",
                         [name |-> class_name, allocatable |-> "true"])
        s5 == SubElement(s4, LastElement(s4), "method",
                         [name |-> "do", descriptor |-> "()LRoot;"])
        do_method_tag == LastElement(s5)
        result_obj_name == class_name \o "_typeshed_"
        s6 == SubElement(s5, do_method_tag, "new",
                         NewAttrib(tmp_class_name, class_path))
    IN  [st |-> s6,
         frame |-> Frame(t.body, do_method_tag, result_obj_name,
                         [tag |-> method_define_package_tag,
                          name |-> method_define_package_name],
                         [tag |-> f.class_def_package_tag,
                          name |-> f.class_def_package_name],
                         class_name)]

\* The end of the ClassDef branch, and the end of convert: the return tag of
\* the frame's method.
ReturnTag(st, f) ==
    SubElement(st, f.def_method_tag, "return", ReturnAttrib(f.return_obj_name))

IgnoredKinds == {"Assign", "Import", "ImportFrom", "If", "Expr"}
RecognizedKinds == {"FunctionDef", "ClassDef", "AnnAssign"} \cup IgnoredKinds

(***************************************************************************)
(* The stub modules the model converts.                                    *)
(***************************************************************************)
RECURSIVE SeqsUpTo(_, _)
SeqsUpTo(S, n) ==
    IF n = 0 THEN {<<>>}
    ELSE LET shorter == SeqsUpTo(S, n - 1)
         IN  shorter \cup {Append(q, x) : q \in shorter, x \in S}

TInt == Name("int")
TStr == Name("str")
TTupleIntStr == Subscript(Name("Tuple"), Tuple(<<TInt, TStr>>))
NoArgs == arguments(<<>>, <<>>)
ArgsX == arguments(<<"x">>, <<>>)
Def(name, returns) == FunctionDef(name, <<>>, ArgsX, returns)
Overload(name, returns) == FunctionDef(name, <<Name("overload")>>, ArgsX, returns)

\* Subscripts whose arguments are plain names: B[e0, ..., e(k-1)] and B[e].
PlainSubscripts ==
    {Subscript(Name(b), Tuple(es)) :
        b \in {"Tuple", "dict"}, es \in SeqsUpTo({TInt, TStr}, MaxElts)}
    \cup {Subscript(Name(b), List(es)) :
        b \in {"Tuple"}, es \in SeqsUpTo({TInt, TStr}, MaxElts)}
    \cup {Subscript(Name(b), e) : b \in {"List", "dict"}, e \in {TInt, TStr}}

OtherTypes ==
    { TInt, Name("Foo"), Constant(PyNone), Constant(PyStr("Foo")),
      Constant(PyEllipsis), NoNode, Attribute,
      BinOp(TInt, Constant(PyNone)), BinOp(TInt, Attribute),
      Tuple(<<TInt, TStr>>), List(<<TInt>>),
      Subscript(Attribute, TInt),
      Subscript(Name("Tuple"), Tuple(<<TInt, Attribute>>)),
      Subscript(Name("Tuple"), Tuple(<<TInt, NoNode>>)),
      Subscript(Name("Dict"), Tuple(<<TStr, Subscript(Name("List"), TInt)>>)),
      Subscript(Name("Callable"), Tuple(<<List(<<TInt, TStr>>), TStr>>)),
      Subscript(Subscript(Name("Dict"), TStr), BinOp(TInt, TStr)) }

TypeExprs == PlainSubscripts \cup OtherTypes

DecoratorLists ==
    { <<Name("staticmethod")>>, <<Name("staticmethod"), Name("overload")>>,
      <<Name("overload"), Attribute>>, <<Attribute>>,
      <<Attribute, Name("overload")>> }

ArgLists ==
    { NoArgs, arguments(<<"x", "y">>, <<>>), arguments(<<"x">>, <<"k">>),
      arguments(<<>>, <<"k", "j">>) }

\* The members of class bodies.
MemberStmts ==
    { Def("a", TInt), Def("b", TTupleIntStr), Overload("a", TStr),
      Def("C", TInt), Def("a", NoNode),
      ClassDef("I", <<>>), ClassDef("I", <<Def("a", TStr)>>),
      AnnAssign(Name("a"), TInt), Expr, Pass,
      If(<<Def("a", TInt), Pass>>) }

\* Statements whose interplay in one module body is explored in full.
CoreStmts ==
    { Def("f", TInt), Def("f", TTupleIntStr), Overload("f", TStr),
      Def("g", NoNode),
      ClassDef("C", <<Def("a", TInt), Def("b", TStr)>>),
      ClassDef("C", <<ClassDef("I", <<>>)>>),
      ClassDef("D", <<ClassDef("I", <<Def("a", TInt)>>)>>),
      AnnAssign(Name("y"), Name("bool")),
      If(<<Def("f", TInt), ClassDef("C", <<>>), Pass>>),
      Import, Pass }

\* Statements explored alone and after one other statement.
SingleStmts ==
    {Def("f", r) : r \in TypeExprs}
    \cup {FunctionDef("f", d, ArgsX, TInt) : d \in DecoratorLists}
    \cup {FunctionDef("f", <<>>, a, TStr) : a \in ArgLists}
    \cup {Def(n, TInt) : n \in {"obj", "function"}}
    \cup {ClassDef(n, <<>>) : n \in {"obj", "function", "f"}}
    \cup {ClassDef("C", b) : b \in SeqsUpTo(MemberStmts, MaxBody)}
    \cup {AnnAssign(Name("y"), r) : r \in OtherTypes}
    \cup {AnnAssign(Name("f"), TInt), AnnAssign(Attribute, TInt)}
    \cup {Assign, ImportFrom, Expr, If(<<>>)}

Modules ==
    SeqsUpTo(CoreStmts, MaxBody)
    \cup {p \o <<s>> : p \in {<<>>, <<Def("f", TTupleIntStr)>>}, s \in SingleStmts}

\* The stems of the batch's file names, by position in filepaths.
Stems == <<"pkg", "os", "re", "sys">>

(***************************************************************************)
(* The batch driver and one Converter per file.                            *)
(***************************************************************************)
Init ==
    /\ pc = "loop"
    /\ exc = ""
    /\ nFiles \in 0..MaxFiles
    /\ fileIdx = 0
    /\ output_dir \in {"absent", "dir", "file"}
    /\ written = <<>>
    /\ package_name = ""
    /\ tree = <<>>
    /\ nodes = <<>>
    /\ tmp_var_name_index = 0
    /\ allocated = <<>>
    /\ stack = <<>>

Top == stack[Len(stack)]
AtStmt == pc = "converting" /\ Top.pos <= Len(Top.body)
Cur == Top.body[Top.pos]

Advance(s) == [s EXCEPT ![Len(s)].pos = @ + 1]

\* A faulty variant: a failed assertion is swallowed and the loop goes on.
AfterStmt_swallow(st) ==
    /\ nodes' = st.nodes
    /\ tmp_var_name_index' = st.idx
    /\ allocated' = st.allocated
    /\ pc' = "converting" /\ exc' = exc /\ stack' = Advance(stack)
    /\ UNCHANGED <<nFiles, fileIdx, output_dir, written, package_name, tree>>

\* What a step of the loop over a body leaves: the converter's state, and
\* either the loop advanced or the exception raised (nothing catches it, in
\* the Converter or in convert_main).

AfterStmt(st) ==
    /\ nodes' = st.nodes
    /\ tmp_var_name_index' = st.idx
    /\ allocated' = st.allocated
    /\ IF st.err
       THEN pc' = "aborted" /\ exc' = "AssertionError" /\ stack' = stack
       ELSE pc' = "converting" /\ exc' = exc /\ stack' = Advance(stack)
    /\ UNCHANGED <<nFiles, fileIdx, output_dir, written, package_name, tree>>

\* convert_main, the head of the loop over filepaths up to the Converter's
\* construction: the output directory is checked, or created.
PrepareOutput ==
    /\ pc = "loop"
    /\ fileIdx < nFiles
    /\ fileIdx' = fileIdx + 1
    /\ IF output_dir = "file"
       THEN pc' = "aborted" /\ exc' = "RuntimeError" /\ output_dir' = output_dir
       ELSE pc' = "prepared" /\ exc' = exc /\ output_dir' = "dir"
    /\ UNCHANGED <<nFiles, written, package_name, tree, nodes,
                   tmp_var_name_index, allocated, stack>>

\* Converter.__init__: the file is parsed and the two root elements made.
Construct ==
    /\ pc = "prepared"
    /\ \E m \in Modules : tree' = m
    /\ package_name' = Stems[fileIdx]
    /\ nodes' = <<[tag |-> "summary-spec", attrib |-> <<>>, children |-> <<2>>],
                  Element("classloader", [name |-> "PythonLoader"])>>
    /\ tmp_var_name_index' = 0
    /\ allocated' = <<>>
    /\ stack' = <<>>
    /\ pc' = "constructed"
    /\ UNCHANGED <<exc, nFiles, fileIdx, output_dir, written>>

\* convert, up to its loop over the module body.
ConvertBegin ==
    /\ pc = "constructed"
    /\ LET s1 == SubElement(Self, class_loader_tag, "class",
                     [name |-> package_name, allocatable |-> "true"])
           s2 == SubElement(s1, LastElement(s1), "method",
                     [name |-> "import", static |-> "true",
                      descriptor |-> ("()L" \o package_name) \o ";"])
           import_method_tag == LastElement(s2)
           function_package_name == package_name \o "/function"
           s3 == SubElement(s2, class_loader_tag, "package",
                     [name |-> function_package_name])
           class_package_name == package_name \o "/class"
           s4 == SubElement(s3, class_loader_tag, "package",
                     [name |-> class_package_name])
           return_obj_name == "obj_typeshed_"
           s5 == SubElement(s4, import_method_tag, "new",
                     NewAttrib(return_obj_name, "L" \o package_name))
       IN  /\ nodes' = s5.nodes
           /\ stack' = <<Frame(tree, import_method_tag, return_obj_name,
                               [tag |-> LastElement(s3), name |-> function_package_name],
                               [tag |-> LastElement(s4), name |-> class_package_name],
                               "")>>
    /\ pc' = "converting"
    /\ UNCHANGED <<exc, nFiles, fileIdx, output_dir, written, package_name, tree,
                   tmp_var_name_index, allocated>>

StepFunctionDef ==
    /\ AtStmt
    /\ Cur.kind = "FunctionDef"
    /\ AfterStmt(ConvertFunctionDef(Self, Cur, Top))

StepAnnAssign ==
    /\ AtStmt
    /\ Cur.kind = "AnnAssign"
    /\ AfterStmt(ConvertAnnAssign(Self, Cur, Top))

\* A faulty variant: a conditional's first statement is translated when it
\* is a function definition.
ConvertIgnored_descend(st, t, f) ==
    IF t.kind = "If" /\ Len(t.body) > 0 /\ t.body[1].kind = "FunctionDef"
    THEN ConvertFunctionDef(st, t.body[1], f)
    ELSE st

\* The branches of Assign, Import, ImportFrom, If and Expr: pass.
ConvertIgnored(st, t, f) == st

StepIgnored ==
    /\ AtStmt
    /\ Cur.kind \in IgnoredKinds
    /\ AfterStmt(ConvertIgnored(Self, Cur, Top))

ConvertUnsupported(st, t, f) == Raise(st)

\* The final else branch: assert 0, tree.
StepUnsupported ==
    /\ AtStmt
    /\ Cur.kind \notin RecognizedKinds
    /\ AfterStmt(ConvertUnsupported(Self, Cur, Top))

\* The ClassDef branch up to the recursive calls on the class body.
StepClassDef ==
    /\ AtStmt
    /\ Cur.kind = "ClassDef"
    /\ LET r == ClassDefEnter(Self, Cur, Top)
       IN  /\ nodes' = r.st.nodes
           /\ stack' = Append(stack, r.frame)
    /\ UNCHANGED <<pc, exc, nFiles, fileIdx, output_dir, written, package_name,
                   tree, tmp_var_name_index, allocated>>

\* The end of the ClassDef branch: the class body is done, the return tag
\* is appended and the caller's loop goes on.
ClassReturn ==
    /\ pc = "converting"
    /\ Len(stack) > 1
    /\ Top.pos > Len(Top.body)
    /\ nodes' = ReturnTag(Self, Top).nodes
    /\ stack' = Advance(SubSeq(stack, 1, Len(stack) - 1))
    /\ UNCHANGED <<pc, exc, nFiles, fileIdx, output_dir, written, package_name,
                   tree, tmp_var_name_index, allocated>>

\* The end of convert: the return tag of the import method.
ConvertEnd ==
    /\ pc = "converting"
    /\ Len(stack) = 1
    /\ Top.pos > Len(Top.body)
    /\ nodes' = ReturnTag(Self, Top).nodes
    /\ stack' = <<>>
    /\ pc' = "converted"
    /\ UNCHANGED <<exc, nFiles, fileIdx, output_dir, written, package_name, tree,
                   tmp_var_name_index, allocated>>

WriteRecord(i, stem) == [file |-> i, path |-> stem \o ".xml"]

\* converter.write(write_filepath), and back to the head of the loop.  The
\* Converter is not used again (the next iteration makes a new one), so its
\* fields are dropped here.
Write ==
    /\ pc = "converted"
    /\ written' = Append(written, WriteRecord(fileIdx, package_name))
    /\ pc' = "loop"
    /\ package_name' = ""
    /\ tree' = <<>>
    /\ nodes' = <<>>
    /\ tmp_var_name_index' = 0
    /\ allocated' = <<>>
    /\ UNCHANGED <<exc, nFiles, fileIdx, output_dir, stack>>

\* The loop over filepaths is exhausted.
Finish ==
    /\ pc = "loop"
    /\ fileIdx = nFiles
    /\ pc' = "done"
    /\ UNCHANGED <<exc, nFiles, fileIdx, output_dir, written, package_name, tree,
                   nodes, tmp_var_name_index, allocated, stack>>

Next ==
    \/ PrepareOutput
    \/ Construct
    \/ ConvertBegin
    \/ StepFunctionDef
    \/ StepAnnAssign
    \/ StepIgnored
    \/ StepUnsupported
    \/ StepClassDef
    \/ ClassReturn
    \/ ConvertEnd
    \/ Write
    \/ Finish

Spec == Init /\ [][Next]_vars

(***************************************************************************)
(* Reading the instruction tree.                                           *)
(***************************************************************************)
Instr(tag, attrib) == [tag |-> tag, attrib |-> attrib]
New(def, class) == Instr("new", NewAttrib(def, class))
Put(field, ref, value) == Instr("putfield", PutfieldAttrib(field, ref, value))
Return(value) == Instr("return", ReturnAttrib(value))
Tmp(n) == "_typeshed" \o ToString(n)

\* The instructions of element m of the heap ns, in order.
BodyOf(ns, m) ==
    [i \in 1..Len(ns[m].children) |->
        Instr(ns[ns[m].children[i]].tag, ns[ns[m].children[i]].attrib)]

MethodsOf(ns) == {m \in 1..Len(ns) : ns[m].tag = "method"}
IsNonOverload(t) ==
    t.kind = "FunctionDef" /\ ScanDecorators(t.decorator_list, 1) = "none"
HasOverloadMarker(t) ==
    /\ t.kind = "FunctionDef"
    /\ \E i \in 1..Len(t.decorator_list) :
          t.decorator_list[i].kind = "Name" /\ t.decorator_list[i].id = "overload"
\* The statement the loop translated last, in the innermost active body.
Prev == Top.body[Top.pos - 1]
HasPrev == pc = "converting" /\ stack # <<>> /\ Top.pos > 1

(***************************************************************************)
(* C1.  In every method body of the instruction tree (the import method,   *)
(* every function's and every class's do method) no two `new` instructions *)
(* have the same `def` name.                                               *)
(***************************************************************************)
NoReusedConstructionTarget ==
    \A m \in MethodsOf(nodes) :
        LET b == BodyOf(nodes, m)
        IN  \A i, j \in 1..Len(b) :
                (i < j /\ b[i].tag = "new" /\ b[j].tag = "new")
                    => b[i].attrib.def # b[j].attrib.def

(***************************************************************************)
(* C2.  A non-overload function definition with no return annotation is    *)
(* translated without error: its do method body is one construct of        *)
(* descriptor LNone followed by a return of the constructed name, and the  *)
(* translation goes on with the next declaration.                          *)
(***************************************************************************)
UnannotatedFunctionTranslated ==
    [][(AtStmt /\ IsNonOverload(Cur) /\ Cur.returns = NoNode)
        => /\ pc' = "converting"
           /\ exc' = ""
           /\ \E m \in MethodsOf(nodes') \ MethodsOf(nodes) :
                 BodyOf(nodes', m) =
                    <<New(Tmp(tmp_var_name_index), "LNone"),
                      Return(Tmp(tmp_var_name_index))>>]_vars

(***************************************************************************)
(* C3.  Within one conversion run the k-th call of the temporary-name      *)
(* allocator (k = 0, 1, 2, ...) returns _typeshed<k>: no string is         *)
(* returned twice, and the counter is the number of calls made.            *)
(***************************************************************************)
AllocatorNamesInOrder ==
    /\ tmp_var_name_index = Len(allocated)
    /\ \A k \in 1..Len(allocated) : allocated[k] = Tmp(k - 1)
    /\ \A i, j \in 1..Len(allocated) : i # j => allocated[i] # allocated[j]

\* Names were allocated for a nested expression and in two method bodies.
AllocatorWitness ==
    /\ Len(allocated) >= 4
    /\ \E m1, m2 \in MethodsOf(nodes) :
          /\ m1 # m2
          /\ \E i \in 1..Len(BodyOf(nodes, m1)) :
                /\ BodyOf(nodes, m1)[i].tag = "putfield"
                /\ BodyOf(nodes, m1)[i].attrib.ref = Tmp(0)
          /\ \E i \in 1..Len(BodyOf(nodes, m2)) :
                /\ BodyOf(nodes, m2)[i].tag = "new"
                /\ BodyOf(nodes, m2)[i].attrib.def = Tmp(Len(allocated) - 1)

(***************************************************************************)
(* C4.  Translating a function definition that carries the overload marker *)
(* appends nothing to the instruction tree, at module scope and in a class *)
(* body; a function definition without it is emitted with its field (new   *)
(* and putfield in the enclosing method) and its class with a method (in    *)
(* the function package in scope), whatever was skipped before it.         *)
(***************************************************************************)
OverloadAbsent ==
    [][/\ (AtStmt /\ HasOverloadMarker(Cur))
            => /\ nodes' = nodes
               /\ tmp_var_name_index' = tmp_var_name_index
       /\ (AtStmt /\ IsNonOverload(Cur))
            => LET f == Top
                   added == (Len(nodes) + 1)..Len(nodes')
                   body == BodyOf(nodes', f.def_method_tag)
                   n == Len(BodyOf(nodes, f.def_method_tag))
               IN  /\ Len(body) = n + 2
                   /\ body[n + 1].tag = "new"
                   /\ body[n + 1].attrib.def = Cur.name \o "_typeshed_"
                   /\ body[n + 2] =
                        Put(Cur.name, f.return_obj_name, Cur.name \o "_typeshed_")
                   /\ \E c \in added :
                        /\ nodes'[c].tag = "class"
                        /\ nodes'[c].attrib.name = Cur.name
                        /\ c = nodes'[f.function_def_package_tag].children[
                                  Len(nodes'[f.function_def_package_tag].children)]
                        /\ Len(nodes'[c].children) = 1
                        /\ nodes'[nodes'[c].children[1]].tag = "method"]_vars

\* In a class body an overload of a name was skipped and the definition of
\* the same name that follows it was emitted.
OverloadWitness ==
    /\ HasPrev
    /\ Len(stack) = 2
    /\ Top.pos = 3
    /\ HasOverloadMarker(Top.body[1])
    /\ IsNonOverload(Top.body[2])
    /\ Top.body[1].name = Top.body[2].name
    /\ Len(nodes[Top.function_def_package_tag].children) = 1

(***************************************************************************)
(* C5.  For a function whose return annotation is B[e0, ..., e(k-1)] with  *)
(* plain-name elements, the do method body is: one construct of the root   *)
(* with the descriptor of B; for each element i in order one construct     *)
(* with the element's descriptor and a putfield with field = i, ref = the  *)
(* root's name, value = the element's name; and last a return of the       *)
(* root's name.  A single plain-name argument is attached with field 0.    *)
(***************************************************************************)
IsPlainSubscript(t) ==
    /\ t.kind = "Subscript"
    /\ t.value.kind = "Name"
    /\ \/ t.slice.kind = "Name"
       \/ /\ t.slice.kind = "Tuple"
          /\ \A i \in 1..Len(t.slice.elts) : t.slice.elts[i].kind = "Name"

SubscriptArgs(t) == IF t.slice.kind = "Tuple" THEN t.slice.elts ELSE <<t.slice>>

\* The body the claim describes, the root being the n0-th allocated name.
PlainSubscriptBody(t, n0) ==
    LET es == SubscriptArgs(t)
        k == Len(es)
    IN  [j \in 1..(2 * k + 2) |->
            IF j = 1 THEN New(Tmp(n0), convertString(PyStr(t.value.id)))
            ELSE IF j = 2 * k + 2 THEN Return(Tmp(n0))
            ELSE IF j % 2 = 0
            THEN New(Tmp(n0 + (j \div 2)), convertString(PyStr(es[j \div 2].id)))
            ELSE Put(ToString(((j - 1) \div 2) - 1), Tmp(n0), Tmp(n0 + ((j - 1) \div 2)))]

PlainSubscriptReturn ==
    [][(AtStmt /\ IsNonOverload(Cur) /\ IsPlainSubscript(Cur.returns))
        => /\ pc' = "converting"
           /\ Cardinality(MethodsOf(nodes') \ MethodsOf(nodes)) = 1
           /\ \A m \in MethodsOf(nodes') \ MethodsOf(nodes) :
                 BodyOf(nodes', m) =
                    PlainSubscriptBody(Cur.returns, tmp_var_name_index)]_vars

\* A function returning B[e0, e1] was translated when names had already
\* been allocated.
PlainSubscriptWitness ==
    /\ HasPrev
    /\ IsNonOverload(Prev)
    /\ IsPlainSubscript(Prev.returns)
    /\ Prev.returns.value.id = "dict"
    /\ Len(SubscriptArgs(Prev.returns)) = 2
    /\ tmp_var_name_index = 6

(***************************************************************************)
(* C6.  In a batch run, when the translation of a file meets an            *)
(* unsupported construct (a statement kind outside the recognized set at   *)
(* module scope or in a class body, or a type expression kind outside the  *)
(* recognized set of its position), the translation aborts at that point   *)
(* with nothing written for that file; after an abort nothing more         *)
(* happens, and what is written is exactly the documents of the files      *)
(* before it.                                                              *)
(***************************************************************************)
RECURSIVE ResolveMeetsUnsupported(_)
ResolveMeetsUnsupported(t) ==
    IF t.kind = "Subscript" THEN ResolveMeetsUnsupported(t.value)
    ELSE IF t.kind = "BinOp"
    THEN ResolveMeetsUnsupported(t.left) \/ ResolveMeetsUnsupported(t.right)
    ELSE t.kind \notin {"Name", "Constant", "NoneType"}

RECURSIVE TranslateMeetsUnsupported(_)
TranslateMeetsUnsupported(t) ==
    IF t.kind \in {"Tuple", "List"}
    THEN \E i \in 1..Len(t.elts) : TranslateMeetsUnsupported(t.elts[i])
    ELSE IF t.kind = "Subscript"
    THEN \/ ResolveMeetsUnsupported(t.value)
         \/ IF t.slice.kind \in {"Tuple", "List"}
            THEN \E i \in 1..Len(t.slice.elts) :
                    TranslateMeetsUnsupported(t.slice.elts[i])
            ELSE TranslateMeetsUnsupported(t.slice)
    ELSE ResolveMeetsUnsupported(t)

MeetsUnsupported ==
    /\ AtStmt
    /\ \/ Cur.kind \notin {"FunctionDef", "ClassDef", "AnnAssign", "Assign",
                           "Import", "ImportFrom", "If", "Expr"}
       \/ Cur.kind = "AnnAssign" /\ ResolveMeetsUnsupported(Cur.annotation)
       \/ IsNonOverload(Cur) /\ TranslateMeetsUnsupported(Cur.returns)

BatchStopsAtUnsupported ==
    /\ [](pc = "aborted"
            => written = [i \in 1..(fileIdx - 1) |-> WriteRecord(i, Stems[i])])
    /\ [][/\ MeetsUnsupported
                => /\ pc' = "aborted"
                   /\ exc' = "AssertionError"
                   /\ written' = written
                   /\ fileIdx' = fileIdx
                   /\ stack' = stack
          /\ pc # "aborted"]_vars

\* The second of three files aborted at an unsupported statement of a class
\* body, after the first file was written.
BatchAbortWitness ==
    /\ pc = "aborted"
    /\ exc = "AssertionError"
    /\ nFiles = 3
    /\ fileIdx = 2
    /\ written = <<WriteRecord(1, "pkg")>>
    /\ Len(stack) = 2
    /\ Cur.kind = "Pass"
    /\ Top.pos = 2

(***************************************************************************)
(* C7.  For a class C whose body is non-overload function definitions      *)
(* m1..mk, the class package holds a class named C whose do method body    *)
(* is: one construct of the instance of C; for each mi in order a          *)
(* construct of mi_typeshed_ and a putfield with field = mi, ref = the     *)
(* instance's name, value = mi_typeshed_; and a return of the instance's   *)
(* name.  Each mi has a class named mi with one do method in the package   *)
(* <package>/C, as a module-level function has in the function package.    *)
(* Such a member with a supported return annotation does not abort.        *)
(***************************************************************************)
ClassDoBody(f) ==
    LET k == Len(f.body)
        inst == f.class_name \o "_typeshed_"
        pkg == (package_name \o "/") \o f.class_name
    IN  [j \in 1..(2 * k + 2) |->
            IF j = 1
            THEN New(inst, ("L" \o package_name) \o ("/class/" \o f.class_name))
            ELSE IF j = 2 * k + 2 THEN Return(inst)
            ELSE IF j % 2 = 0
            THEN New(f.body[j \div 2].name \o "_typeshed_",
                     (("L" \o pkg) \o "/") \o f.body[j \div 2].name)
            ELSE Put(f.body[(j - 1) \div 2].name, inst,
                     f.body[(j - 1) \div 2].name \o "_typeshed_")]

FunctionClassOf(ns, c, t) ==
    /\ ns[c].tag = "class"
    /\ ns[c].attrib = [name |-> t.name, allocatable |-> "true"]
    /\ Len(ns[c].children) = 1
    /\ LET m == ns[c].children[1]
           b == BodyOf(ns, m)
       IN  /\ ns[m].tag = "method"
           /\ ns[m].attrib.name = "do"
           /\ ns[m].attrib.static = "true"
           /\ ns[m].attrib.num_args =
                ToString(Len(t.args.args) + Len(t.args.kwonlyargs))
           /\ Len(b) >= 2
           /\ b[1].tag = "new"
           /\ b[Len(b)] = Return(b[1].attrib.def)

ClassOfMethods ==
    [][/\ (/\ pc = "converting"
           /\ Len(stack) > 1
           /\ Top.pos > Len(Top.body)
           /\ \A i \in 1..Len(Top.body) : IsNonOverload(Top.body[i]))
            => LET f == Top
                   do == f.def_method_tag
                   mp == f.function_def_package_tag
               IN  /\ BodyOf(nodes', do) = ClassDoBody(f)
                   /\ nodes'[do].attrib.name = "do"
                   /\ \E c \in 1..Len(nodes') :
                        /\ nodes'[c].tag = "class"
                        /\ nodes'[c].attrib.name = f.class_name
                        /\ nodes'[c].children = <<do>>
                        /\ \E i \in 1..Len(nodes'[f.class_def_package_tag].children) :
                              nodes'[f.class_def_package_tag].children[i] = c
                   /\ nodes'[f.class_def_package_tag].attrib.name =
                        package_name \o "/class"
                   /\ nodes'[mp].tag = "package"
                   /\ nodes'[mp].attrib.name = (package_name \o "/") \o f.class_name
                   /\ Len(nodes'[mp].children) = Len(f.body)
                   /\ \A i \in 1..Len(f.body) :
                        FunctionClassOf(nodes', nodes'[mp].children[i], f.body[i])
       /\ (/\ AtStmt
           /\ Len(stack) > 1
           /\ IsNonOverload(Cur)
           /\ Cur.returns # NoNode
           /\ ~TranslateMeetsUnsupported(Cur.returns))
            => pc' = "converting"]_vars

\* The class with methods a and b has just been translated.
ClassOfMethodsWitness ==
    /\ HasPrev
    /\ Prev.kind = "ClassDef"
    /\ Len(Prev.body) = 2
    /\ IsNonOverload(Prev.body[1])
    /\ IsNonOverload(Prev.body[2])
    /\ Prev.body[1].name = "a"
    /\ Prev.body[2].name = "b"

(***************************************************************************)
(* C8.  Translating a plain assignment, an import, a from-import, a        *)
(* conditional or a bare expression statement, at module scope or in a     *)
(* class body, changes nothing but the position of the loop: no element is *)
(* appended, the counter keeps its value, and no error is raised, whatever *)
(* the statement contains.                                                 *)
(***************************************************************************)
IgnoredStatementsNoEffect ==
    [][(AtStmt /\ Cur.kind \in {"Assign", "Import", "ImportFrom", "If", "Expr"})
        => /\ nodes' = nodes
           /\ tmp_var_name_index' = tmp_var_name_index
           /\ allocated' = allocated
           /\ pc' = "converting"
           /\ exc' = ""
           /\ stack' = Advance(stack)
           /\ UNCHANGED <<nFiles, fileIdx, output_dir, written, package_name,
                          tree>>]_vars

\* In a class body a conditional that holds a function definition was passed.
IgnoredWitness ==
    /\ HasPrev
    /\ Len(stack) = 2
    /\ Prev.kind = "If"
    /\ Len(Prev.body) > 0
    /\ Prev.body[1].kind = "FunctionDef"
    /\ Len(nodes) > 7

(***************************************************************************)
(* C9.  Definition before use, in every state and every method body: each  *)
(* putfield's ref and value, and each return's value, is the def of a new  *)
(* earlier in the same body; and when a conversion is complete every       *)
(* method body has exactly one return, its last instruction.               *)
(***************************************************************************)
DefinedBefore(b, j, name) ==
    \E i \in 1..(j - 1) : b[i].tag = "new" /\ b[i].attrib.def = name

DefinitionBeforeUse ==
    \A m \in MethodsOf(nodes) :
        LET b == BodyOf(nodes, m)
        IN  /\ \A j \in 1..Len(b) :
                /\ b[j].tag = "putfield"
                    => /\ DefinedBefore(b, j, b[j].attrib.ref)
                       /\ DefinedBefore(b, j, b[j].attrib.value)
                /\ b[j].tag = "return" => DefinedBefore(b, j, b[j].attrib.value)
            /\ pc = "converted"
                => /\ Cardinality({j \in 1..Len(b) : b[j].tag = "return"}) = 1
                   /\ b[Len(b)].tag = "return"

\* A completed conversion with a class, a method in it and a nested type.
DefinitionBeforeUseWitness ==
    /\ pc = "converted"
    /\ Cardinality(MethodsOf(nodes)) >= 3
    /\ \E m \in MethodsOf(nodes) :
          \E j \in 1..Len(BodyOf(nodes, m)) :
              /\ BodyOf(nodes, m)[j].tag = "putfield"
              /\ BodyOf(nodes, m)[j].attrib.field = "1"
    /\ \E c \in 1..Len(tree) : tree[c].kind = "ClassDef" /\ tree[c].body # <<>>

(***************************************************************************)
(* C10.  In the instruction tree of a completed conversion no two package  *)
(* elements under the classloader have the same name, and no package       *)
(* holds two class elements of the same name.                              *)
(***************************************************************************)
UniquePackageAndClassNames ==
    pc = "converted"
        => LET top == nodes[class_loader_tag].children
               pk == {i \in 1..Len(top) : nodes[top[i]].tag = "package"}
           IN  /\ \A i, j \in pk :
                    i # j => nodes[top[i]].attrib.name # nodes[top[j]].attrib.name
               /\ \A p \in pk :
                    LET cs == nodes[top[p]].children
                    IN  \A i, j \in 1..Len(cs) :
                            (i # j /\ nodes[cs[i]].tag = "class"
                                   /\ nodes[cs[j]].tag = "class")
                                => nodes[cs[i]].attrib.name # nodes[cs[j]].attrib.name

====
